---- MODULE Spec2Model ----
(***************************************************************************)
(* A model of neuralop's BaseModel registry / argument capture /           *)
(* checkpointing (src/neuralop/models/base_model.py), of the model factory *)
(* get_model, and of the channel MLP layers                                *)
(* (src/neuralop/layers/channel_mlp.py).                                   *)
(*                                                                         *)
(* Python values are tagged records:                                       *)
(*   [t |-> "none"]                      None                              *)
(*   [t |-> "int",   n |-> 5]            an int                            *)
(*   [t |-> "str",   s |-> <<"D","m">>]  a str, as its sequence of chars   *)
(*   [t |-> "tuple", items |-> <<..>>]   a tuple                           *)
(*   [t |-> "dict",  d |-> f]            a dict, f a function on its keys  *)
(*   [t |-> "model", cls, kw, recvArgs, recvKw]  a BaseModel instance      *)
(* A str that is a dict key is a TLA+ string; a str whose letter case the  *)
(* code looks at (a class name) is a sequence of one-letter strings.       *)
(***************************************************************************)
EXTENDS Integers, Sequences, FiniteSets, TLC

VARIABLES
    _models,    \* BaseModel._models: lower-cased name -> class
    _name,      \* cls._name of every declared class
    decls,      \* the subclass declarations executed so far, in order
    cur,        \* the most recently constructed BaseModel instance (or None)
    out,        \* what the last call returned or raised
    disk,       \* the checkpoint folder: the two artifacts of save_checkpoint
    config,     \* the config mapping handed to get_model
    mlp,        \* the ChannelMLP / LinearChannelMLP under test
    fwd         \* what its last forward call did

vars == <<_models, _name, decls, cur, out, disk, config, mlp, fwd>>

----------------------------------------------------------------------------
(* Python values *)

None == [t |-> "none"]

MkInt(n) == [t |-> "int", n |-> n]

MkStr(s) == [t |-> "str", s |-> s]

MkTuple(items) == [t |-> "tuple", items |-> items]

MkDict(d) == [t |-> "dict", d |-> d]

EmptyMap == [k \in {} |-> None]

IsNone(v) == v.t = "none"

IsDict(v) == v.t = "dict"

IsModel(v) == v.t = "model"

\* dict.pop(key) / del: the mapping without the key
Without(d, key) == [k \in (DOMAIN d) \ {key} |-> d[k]]

\* d[key] = value
With(d, key, value) == [k \in (DOMAIN d) \cup {key} |-> IF k = key THEN value ELSE d[k]]

\* what a call produced: a value, or the exception it raised, and the warnings emitted
Ok(v) == [ok |-> TRUE, val |-> v, err |-> "", warns |-> {}]

Raise(e) == [ok |-> FALSE, val |-> None, err |-> e, warns |-> {}]

Warn(r, w) == [r EXCEPT !.warns = @ \cup w]

\* the record kept in `out`: which operation ran, on what input, and what it produced
Did(op, call, r) == [op |-> op, call |-> call, ok |-> r.ok, val |-> r.val, err |-> r.err, warns |-> r.warns]

----------------------------------------------------------------------------
(* str.lower() on the letters the model uses *)

LowerChar(c) ==
    CASE c = "A" -> "a"
      [] c = "B" -> "b"
      [] c = "D" -> "d"
      [] c = "L" -> "l"
      [] c = "N" -> "n"
      [] c = "W" -> "w"
      [] OTHER -> c

Lower(s) == [i \in 1..Len(s) |-> LowerChar(s[i])]

----------------------------------------------------------------------------
(* BaseModel.__init_subclass__ : the registry *)

\* the registry after `class <pyname>(BaseModel, name=<name>)` declares class c
RegisterFirstWins(reg, c, pyname, name) ==
    LET key == IF name # None THEN Lower(name.s) ELSE Lower(pyname)
    IN IF key \in DOMAIN reg THEN reg ELSE With(reg, key, c)

RegisterModels(reg, c, pyname, name) ==
    IF name # None
        THEN With(reg, Lower(name.s), c)
        ELSE With(reg, Lower(pyname), c)

\* cls._name after the declaration
RegisterName(names, c, pyname, name) ==
    IF name # None
        THEN With(names, c, name.s)
        ELSE With(names, c, pyname)

\* available_models()
available_models == DOMAIN _models

----------------------------------------------------------------------------
(* The registry under arbitrary subclass declarations *)

MaxDecls == 3

\* cls.__name__ of the classes a program may declare
ClassNames == {<<"A">>, <<"B">>, <<"a", "b">>}

\* the name= keyword of a declaration: absent, or one of these
ExplicitNames == {None, MkStr(<<"a">>), MkStr(<<"A", "B">>), MkStr(<<"a", "b">>)}

Idle ==
    /\ cur = None
    /\ out = Did("import", None, Ok(None))
    /\ disk = None
    /\ config = None
    /\ mlp = None
    /\ fwd = None

InitReg ==
    /\ _models = EmptyMap
    /\ _name = EmptyMap
    /\ decls = <<>>
    /\ Idle

\* class <pyname>(BaseModel, name=<name>): ...   the new class is number Len(decls)+1
InitSubclass(pyname, name) ==
    /\ Len(decls) < MaxDecls
    /\ LET c == Len(decls) + 1
       IN /\ _models' = RegisterModels(_models, c, pyname, name)
          /\ _name' = RegisterName(_name, c, pyname, name)
          /\ decls' = Append(decls, [cls |-> c, pyname |-> pyname, name |-> name])
    /\ out' = Did("init_subclass", None, Ok(None))
    /\ UNCHANGED <<cur, disk, config, mlp, fwd>>

NextReg == \E pyname \in ClassNames, name \in ExplicitNames : InitSubclass(pyname, name)

SpecReg == InitReg /\ [][NextReg]_vars

----------------------------------------------------------------------------
(* Registry claims *)

\* the key a declaration registers under: its explicit name, else its class name, lower-cased
DeclKey(d) == IF d.name # None THEN Lower(d.name.s) ELSE Lower(d.pyname)

\* the last declaration made under key k
LastDecl(k) ==
    LET is == {i \in 1..Len(decls) : DeclKey(decls[i]) = k}
    IN decls[CHOOSE i \in is : \A j \in is : j <= i]

\* C8: after any sequence of subclass declarations the registry maps every
\* lower-cased declared name, and nothing else, to the class most recently
\* declared under it (names differing only in case collide, the later class
\* wins, no entry is ever removed, no declaration fails), and
\* available_models() is exactly that key set.
C8_RegistryLastWriteWins ==
    /\ out.ok
    /\ DOMAIN _models = {DeclKey(decls[i]) : i \in 1..Len(decls)}
    /\ \A k \in DOMAIN _models : _models[k] = LastDecl(k).cls
    /\ available_models = {DeclKey(decls[i]) : i \in 1..Len(decls)}

\* a class was declared under a name that an earlier class already held in
\* another letter case, and the registry now holds the later class
C8_Witness ==
    \E i, j \in 1..Len(decls) :
        /\ i < j
        /\ DeclKey(decls[i]) = DeclKey(decls[j])
        /\ _name[decls[i].cls] # _name[decls[j].cls]
        /\ j = Len(decls)
        /\ _models[DeclKey(decls[i])] = decls[j].cls

----------------------------------------------------------------------------
(* Channel MLP layers: src/neuralop/layers/channel_mlp.py *)

MaxLayers == 3

MaxRank == 4

MaxDim == 2

\* channel counts handed to the constructors
Widths == {1, 2}

\* dropout probabilities, in percent
DropoutRates == {0, 50}

nonlinearity_modules == {"gelu", "relu", "elu", "tanh", "sigmoid"}

\* the non_linearity arguments tried: the default, and a name the table lacks
NonLinearities == {"gelu", "swish"}

RECURSIVE Product(_)
Product(s) == IF s = <<>> THEN 1 ELSE Head(s) * Product(Tail(s))

\* tensor.reshape(target): at most one entry of target is -1 and is inferred
Reshape(shape, target) ==
    LET numel == Product(shape)
        known == Product([i \in 1..Len(target) |-> IF target[i] = -1 THEN 1 ELSE target[i]])
        holes == {i \in 1..Len(target) : target[i] = -1}
    IN IF holes = {}
           THEN IF known = numel THEN [ok |-> TRUE, shape |-> target]
                                 ELSE [ok |-> FALSE, shape |-> <<>>]
           ELSE IF Cardinality(holes) = 1 /\ known > 0 /\ numel % known = 0
                    THEN [ok |-> TRUE,
                          shape |-> [i \in 1..Len(target) |->
                                        IF target[i] = -1 THEN numel \div known ELSE target[i]]]
                    ELSE [ok |-> FALSE, shape |-> <<>>]

\* nn.Conv1d(cin, cout, 1) applied to a tensor of this shape: (N, C, L) or,
\* unbatched, (C, L); the channel axis must hold cin channels
Conv1d(fc, shape) ==
    IF Len(shape) = 3 /\ shape[2] = fc.cin
        THEN [ok |-> TRUE, shape |-> <<shape[1], fc.cout, shape[3]>>]
    ELSE IF Len(shape) = 2 /\ shape[1] = fc.cin
        THEN [ok |-> TRUE, shape |-> <<fc.cout, shape[2]>>]
    ELSE [ok |-> FALSE, shape |-> <<>>]

\* nn.Linear(cin, cout) applied to a tensor of this shape: acts on the last axis
Linear(fc, shape) ==
    IF Len(shape) >= 1 /\ shape[Len(shape)] = fc.cin
        THEN [ok |-> TRUE, shape |-> [i \in 1..Len(shape) |-> IF i = Len(shape) THEN fc.cout ELSE shape[i]]]
        ELSE [ok |-> FALSE, shape |-> <<>>]

\* the layer built at index i (0-based) of ChannelMLP.fcs
ChannelMLPLayer(i, n_layers, cin, chid, cout) ==
    IF i = 0 /\ i = n_layers - 1 THEN [cin |-> cin, cout |-> cout]
    ELSE IF i = 0 THEN [cin |-> cin, cout |-> chid]
    ELSE IF i = n_layers - 1 THEN [cin |-> chid, cout |-> cout]
    ELSE [cin |-> chid, cout |-> chid]

\* ChannelMLP.__init__ ; out_channels and hidden_channels may be None (0 here)
ChannelMLPInit(in_channels, out_channels, hidden_channels, n_layers, non_linearity, dropout) ==
    LET cout == IF out_channels = 0 THEN in_channels ELSE out_channels
        chid == IF hidden_channels = 0 THEN in_channels ELSE hidden_channels
    IN IF non_linearity \notin nonlinearity_modules THEN Raise("KeyError")
       ELSE Ok([kind |-> "conv",
                n_layers |-> n_layers,
                in_channels |-> in_channels,
                out_channels |-> cout,
                hidden_channels |-> chid,
                non_linearity |-> non_linearity,
                dropout |-> IF dropout > 0 THEN [i \in 1..n_layers |-> dropout] ELSE <<>>,
                has_dropout |-> dropout > 0,
                fcs |-> [i \in 1..n_layers |->
                            ChannelMLPLayer(i - 1, n_layers, in_channels, chid, cout)]])

\* LinearChannelMLP.__init__
LinearChannelMLPInit(layers, non_linearity, dropout) ==
    LET n_layers == Len(layers) - 1
    IN IF n_layers < 1 THEN Raise("AssertionError")
       ELSE IF non_linearity \notin nonlinearity_modules THEN Raise("KeyError")
       ELSE Ok([kind |-> "linear",
                n_layers |-> n_layers,
                in_channels |-> layers[1],
                out_channels |-> layers[Len(layers)],
                hidden_channels |-> 0,
                non_linearity |-> non_linearity,
                dropout |-> IF dropout > 0 THEN [i \in 1..n_layers |-> dropout] ELSE <<>>,
                has_dropout |-> dropout > 0,
                fcs |-> [j \in 1..n_layers |-> [cin |-> layers[j], cout |-> layers[j + 1]]]])

\* one ring of the loop `for i, fc in enumerate(self.fcs)`, from index i (0-based) on;
\* x is [ok, shape, ops]: the running tensor's shape and the operations applied so far
LayerOpsOff(m, i) ==
    <<[op |-> "fc", i |-> i]>>
        \o (IF i <= m.n_layers - 1 THEN <<[op |-> "act", i |-> i]>> ELSE <<>>)
        \o (IF m.has_dropout THEN <<[op |-> "drop", i |-> i]>> ELSE <<>>)

LayerOps(m, i) ==
    <<[op |-> "fc", i |-> i]>>
        \o (IF i < m.n_layers - 1 THEN <<[op |-> "act", i |-> i]>> ELSE <<>>)
        \o (IF m.has_dropout THEN <<[op |-> "drop", i |-> i]>> ELSE <<>>)

RECURSIVE Layers(_, _, _)
Layers(m, i, x) ==
    IF i >= Len(m.fcs) \/ ~x.ok THEN x
    ELSE LET y == IF m.kind = "conv" THEN Conv1d(m.fcs[i + 1], x.shape)
                                     ELSE Linear(m.fcs[i + 1], x.shape)
         IN Layers(m, i + 1,
                   IF y.ok THEN [ok |-> TRUE, shape |-> y.shape, ops |-> x.ops \o LayerOps(m, i)]
                           ELSE [ok |-> FALSE, shape |-> <<>>, ops |-> x.ops])

\* the trailing axes of a shape, from axis k on (1-based)
AxesFrom(shape, k) == [i \in 1..(Len(shape) - k + 1) |-> shape[i + k - 1]]

UnflattenIn(m, size) == <<size[1], m.in_channels>> \o AxesFrom(size, 3)

\* the target of the closing reshape: (size[0], self.out_channels, *size[2:])
Unflatten(m, size) == <<size[1], m.out_channels>> \o AxesFrom(size, 3)

\* ChannelMLP.forward(x) for x of shape `size`
ChannelMLPForward(m, size) ==
    LET reshaped == Len(size) > 3
        flat == IF reshaped THEN Reshape(size, <<size[1], size[2], -1>>)
                            ELSE [ok |-> TRUE, shape |-> size]
        x0 == [ok |-> flat.ok, shape |-> flat.shape,
               ops |-> IF reshaped THEN <<[op |-> "reshape", i |-> 0]>> ELSE <<>>]
        x1 == Layers(m, 0, x0)
        back == IF reshaped /\ x1.ok THEN Reshape(x1.shape, Unflatten(m, size))
                                     ELSE [ok |-> x1.ok, shape |-> x1.shape]
    IN [ok |-> back.ok,
        shape |-> back.shape,
        ops |-> IF reshaped /\ x1.ok THEN x1.ops \o <<[op |-> "reshape", i |-> m.n_layers]>>
                                     ELSE x1.ops]

\* LinearChannelMLP.forward(x)
LinearChannelMLPForward(m, size) == Layers(m, 0, [ok |-> TRUE, shape |-> size, ops |-> <<>>])

RECURSIVE SeqsOf(_, _)
\* all sequences over S of length n
SeqsOf(S, n) ==
    IF n = 0 THEN {<<>>} ELSE {Append(s, e) : s \in SeqsOf(S, n - 1), e \in S}

\* the shapes of the input tensors tried: (batch, channels, *spatial) with zero..MaxRank-2 spatial axes
InputShapes == UNION {SeqsOf(1..MaxDim, n) : n \in 2..MaxRank}

\* the `layers` lists tried
LayerLists == UNION {SeqsOf(Widths, n) : n \in 1..(MaxLayers + 1)}

InitMLP ==
    /\ _models = EmptyMap
    /\ _name = EmptyMap
    /\ decls = <<>>
    /\ Idle

\* mlp = ChannelMLP(in_channels, out_channels, hidden_channels, n_layers, non_linearity, dropout)
NewChannelMLP(in_channels, out_channels, hidden_channels, n_layers, non_linearity, dropout) ==
    LET r == ChannelMLPInit(in_channels, out_channels, hidden_channels, n_layers, non_linearity, dropout)
    IN /\ mlp = None
       /\ out' = Did("init", None, [r EXCEPT !.val = None])
       /\ mlp' = IF r.ok THEN r.val ELSE None
       /\ fwd' = None
       /\ UNCHANGED <<_models, _name, decls, cur, disk, config>>

\* mlp = LinearChannelMLP(layers, non_linearity, dropout)
NewLinearChannelMLP(layers, non_linearity, dropout) ==
    LET r == LinearChannelMLPInit(layers, non_linearity, dropout)
    IN /\ mlp = None
       /\ out' = Did("init", None, [r EXCEPT !.val = None])
       /\ mlp' = IF r.ok THEN r.val ELSE None
       /\ fwd' = None
       /\ UNCHANGED <<_models, _name, decls, cur, disk, config>>

\* y = mlp(x) for a tensor x of shape `size`
Forward(size) ==
    /\ mlp # None
    /\ fwd = None
    /\ LET r == IF mlp.kind = "conv" THEN ChannelMLPForward(mlp, size)
                                     ELSE LinearChannelMLPForward(mlp, size)
       IN fwd' = [x |-> size, ok |-> r.ok, shape |-> r.shape, ops |-> r.ops]
    /\ UNCHANGED <<_models, _name, decls, cur, out, disk, config, mlp>>

NextMLP ==
    \/ \E cin \in Widths, cout \in {0} \cup Widths, chid \in {0} \cup Widths,
          n \in 0..MaxLayers, nl \in NonLinearities, p \in DropoutRates :
            NewChannelMLP(cin, cout, chid, n, nl, p)
    \/ \E layers \in LayerLists, nl \in NonLinearities, p \in DropoutRates :
            NewLinearChannelMLP(layers, nl, p)
    \/ \E size \in InputShapes : Forward(size)

SpecMLP == InitMLP /\ [][NextMLP]_vars

----------------------------------------------------------------------------
(* Channel MLP claims *)

\* a forward call returned, on a layer stack of at least one layer
Forwarded == mlp # None /\ fwd # None /\ fwd.ok /\ mlp.n_layers >= 1

\* the per-layer operations of the last forward call, reshapes left out
FwdLayerOps == SelectSeq(fwd.ops, LAMBDA o : o.op # "reshape")

\* position p of s holds operation op of layer i
OpAt(s, p, op, i) == p \in 1..Len(s) /\ s[p] = [op |-> op, i |-> i]

\* every layer but the last: projection, nonlinearity, then its dropout when dropout > 0
InteriorLayersOrdered(s) ==
    \A i \in 0..(mlp.n_layers - 2) :
        \E p \in 1..Len(s) :
            /\ OpAt(s, p, "fc", i)
            /\ OpAt(s, p + 1, "act", i)
            /\ IF mlp.has_dropout
                 THEN OpAt(s, p + 2, "drop", i) /\ OpAt(s, p + 3, "fc", i + 1)
                 ELSE OpAt(s, p + 2, "fc", i + 1)

\* C9 as stated: in the forward pass of both MLPs every layer except the last
\* is followed by the nonlinearity and then (dropout > 0) by its dropout, and
\* the last projection is followed by neither, so the value returned is the
\* output of the last projection.
C9_LastLayerBare ==
    Forwarded =>
        /\ InteriorLayersOrdered(FwdLayerOps)
        /\ OpAt(FwdLayerOps, Len(FwdLayerOps), "fc", mlp.n_layers - 1)

\* C9 as amended: every layer except the last is followed by the nonlinearity;
\* when dropout > 0 every layer, the last one included, is then followed by
\* its own dropout; the last projection is never followed by a nonlinearity,
\* and the value returned is the output of the last projection exactly when
\* dropout is off, and that output passed through the last dropout otherwise.
C9_LastLayerDropoutOnly ==
    Forwarded =>
        LET s == FwdLayerOps
            last == mlp.n_layers - 1
        IN /\ InteriorLayersOrdered(s)
           /\ OpAt(s, 1, "fc", 0)
           /\ \A p \in 1..Len(s) : ~OpAt(s, p, "act", last)
           /\ IF mlp.has_dropout
                THEN OpAt(s, Len(s) - 1, "fc", last) /\ OpAt(s, Len(s), "drop", last)
                ELSE OpAt(s, Len(s), "fc", last)
           /\ Len(s) = (2 * mlp.n_layers - 1) + (IF mlp.has_dropout THEN mlp.n_layers ELSE 0)

\* a ChannelMLP of several layers with dropout on ran forward on a 4-axis input
C9_Witness ==
    /\ Forwarded
    /\ mlp.kind = "conv"
    /\ mlp.n_layers >= 2
    /\ mlp.has_dropout
    /\ Len(fwd.x) = 4
    /\ OpAt(FwdLayerOps, Len(FwdLayerOps), "drop", mlp.n_layers - 1)

\* the layer sizes C10 describes
LayerSizesAsDocumented ==
    \A i \in 1..mlp.n_layers :
        /\ mlp.fcs[i].cin = (IF i = 1 THEN mlp.in_channels ELSE mlp.hidden_channels)
        /\ mlp.fcs[i].cout = (IF i = mlp.n_layers THEN mlp.out_channels ELSE mlp.hidden_channels)

\* forward was called on a ChannelMLP of >= 1 layers with an input (batch, in_channels, *spatial)
ChannelInput ==
    /\ mlp # None /\ fwd # None
    /\ mlp.kind = "conv"
    /\ mlp.n_layers >= 1
    /\ fwd.x[2] = mlp.in_channels

\* C10 as stated: a ChannelMLP with n_layers >= 1 has the documented layer
\* sizes and maps an input of shape (batch, in_channels, *spatial), with zero
\* or more spatial axes, to (batch, out_channels, *spatial).
C10_ShapeAnyRank ==
    ChannelInput =>
        /\ LayerSizesAsDocumented
        /\ fwd.ok
        /\ fwd.shape = <<fwd.x[1], mlp.out_channels>> \o AxesFrom(fwd.x, 3)

\* C10 as amended: the same, for inputs with one or more trailing spatial axes.
C10_ShapeWithSpatialAxis ==
    (ChannelInput /\ Len(fwd.x) >= 3) =>
        /\ LayerSizesAsDocumented
        /\ fwd.ok
        /\ fwd.shape = <<fwd.x[1], mlp.out_channels>> \o AxesFrom(fwd.x, 3)

\* a 3-layer ChannelMLP whose three widths are not all equal ran on a
\* (batch, channels, x1, x2) input with x1 # x2, through flatten and un-flatten
C10_Witness ==
    /\ ChannelInput
    /\ fwd.ok
    /\ mlp.n_layers = 3
    /\ mlp.hidden_channels # mlp.in_channels
    /\ mlp.out_channels # mlp.in_channels
    /\ Len(fwd.x) = 4
    /\ fwd.x[3] # fwd.x[4]
    /\ fwd.shape = <<fwd.x[1], mlp.out_channels, fwd.x[3], fwd.x[4]>>

----------------------------------------------------------------------------
(* BaseModel instances: src/neuralop/models/base_model.py *)

\* BaseModel._version = '0.1.0'
BaseVersion == <<"0", ".", "1", ".", "0">>

\* a version tag written by another release of a class
OtherVersion == <<"0", ".", "0", ".", "9">>

Param(name) == [name |-> name, has_default |-> FALSE, default |-> None]

ParamDefault(name, default) == [name |-> name, has_default |-> TRUE, default |-> default]

\* The subclasses the program declares.  Each entry gives the class statement
\* (cls.__name__ and the name= keyword), the signature of __init__, which
\* arguments __init__ keeps as attributes (self.submodel = submodel) and the
\* tensors the module owns.
\*   class Dm(BaseModel):               def __init__(self, in_channels, **kwargs)
\*   class Nbm(BaseModel, name="Nbm"):  def __init__(self, submodel)
\*   class Wr(BaseModel, name="wr"):    def __init__(self, submodel, **kwargs)
\*   class Lf(BaseModel, name="lf"):    def __init__(self, width=3, **kwargs)
ClassTable == <<
    [pyname |-> <<"D", "m">>, name |-> None,
     params |-> <<Param("in_channels")>>,
     varkw |-> TRUE, stores |-> {}, weights |-> {"weight"}],
    [pyname |-> <<"N", "b", "m">>, name |-> MkStr(<<"N", "b", "m">>),
     params |-> <<Param("submodel")>>,
     varkw |-> FALSE, stores |-> {"submodel"}, weights |-> {}],
    [pyname |-> <<"W", "r">>, name |-> MkStr(<<"w", "r">>),
     params |-> <<Param("submodel")>>,
     varkw |-> TRUE, stores |-> {"submodel"}, weights |-> {"weight"}],
    [pyname |-> <<"L", "f">>, name |-> MkStr(<<"l", "f">>),
     params |-> <<ParamDefault("width", MkInt(3))>>,
     varkw |-> TRUE, stores |-> {}, weights |-> {"weight"}] >>

Classes == DOMAIN ClassTable

ParamNames(c) == {ClassTable[c].params[i].name : i \in 1..Len(ClassTable[c].params)}

\* the position (1-based) of a declared parameter
ParamIndex(c, name) == CHOOSE i \in 1..Len(ClassTable[c].params) : ClassTable[c].params[i].name = name

RECURSIVE base_models_to_kwargs(_)
\* base_models_to_kwargs(kwarg_dict): only the values of the dict, and of dicts
\* inside it, are looked at; a tuple is neither a BaseModel nor a dict
base_models_to_kwargs(kd) ==
    [key \in DOMAIN kd |->
        IF IsModel(kd[key]) THEN MkDict("BaseModel_to_store" :> MkDict(kd[key].kw))
        ELSE IF IsDict(kd[key]) THEN MkDict(base_models_to_kwargs(kd[key].d))
        ELSE kd[key]]

\* the defaults loop of __new__: every parameter with a default whose name is
\* not a key of kwargs gets its default
FillDefaults(c, args, kwargs) ==
    LET ps == ClassTable[c].params
        defaulted == {i \in 1..Len(ps) : ps[i].has_default}
    IN [key \in (DOMAIN kwargs) \cup {ps[i].name : i \in defaulted} |->
            IF key \in DOMAIN kwargs THEN kwargs[key]
            ELSE ps[ParamIndex(c, key)].default]

\* BaseModel.__new__(cls, *args, **kwargs): the mapping stored as instance._init_kwargs
\* (the prints made when verbose is set change no state and are left out)
CaptureInitKwargs(c, args, kwargs) ==
    LET k1 == FillDefaults(c, args, kwargs)
        k2 == With(k1, "_version", MkStr(BaseVersion))
        k3 == With(k2, "args", MkTuple(args))
        k4 == With(k3, "_name", MkStr(_name[c]))
    IN base_models_to_kwargs(k4)

\* The keyword arguments as __init__ then sees them: __new__ worked on its own
\* copy of the kwargs mapping, but a dict passed as a value is the caller's
\* object, which base_models_to_kwargs rewrote in place.
KwargsAfterNew(kwargs) ==
    [key \in DOMAIN kwargs |->
        IF IsDict(kwargs[key]) THEN MkDict(base_models_to_kwargs(kwargs[key].d))
        ELSE kwargs[key]]

\* Python's binding of (*args, **kwargs) to the parameters of __init__:
\* the value each declared parameter receives, or TypeError
Bind(c, args, kwargs) ==
    LET ps == ClassTable[c].params
        names == ParamNames(c)
    IN IF Len(args) > Len(ps) THEN Raise("TypeError")
       ELSE IF \E i \in 1..Len(args) : ps[i].name \in DOMAIN kwargs THEN Raise("TypeError")
       ELSE IF ~ClassTable[c].varkw /\ (DOMAIN kwargs) \ names # {} THEN Raise("TypeError")
       ELSE IF \E i \in (Len(args) + 1)..Len(ps) :
                   ~ps[i].has_default /\ ps[i].name \notin DOMAIN kwargs THEN Raise("TypeError")
       ELSE Ok([n \in names |->
                   LET i == ParamIndex(c, n)
                   IN IF i <= Len(args) THEN args[i]
                      ELSE IF n \in DOMAIN kwargs THEN kwargs[n]
                      ELSE ps[i].default])

\* cls(*args, **kwargs): __new__ captures, then __init__ binds and keeps its attributes
Construct(c, args, kwargs) ==
    LET bound == Bind(c, args, KwargsAfterNew(kwargs))
    IN IF ~bound.ok THEN bound
       ELSE Ok([t |-> "model",
                cls |-> c,
                kw |-> CaptureInitKwargs(c, args, kwargs),
                attrs |-> [a \in ClassTable[c].stores |-> bound.val[a]]])

RECURSIVE KwargsToBaseModels(_, _)
\* the loop of kwargs_to_base_models over the keys still to visit; the first
\* failing entry ends the call (the keys are visited in the dict's own order,
\* which only decides which of several failures is the one raised)
KwargsToBaseModels(kd, keys) ==
    IF keys = {} THEN Ok(kd)
    ELSE LET key == CHOOSE k \in keys : TRUE
             value == kd[key]
         IN IF ~IsDict(value) THEN KwargsToBaseModels(kd, keys \ {key})
            ELSE IF "BaseModel_to_store" \notin DOMAIN value.d THEN Raise("KeyError")
            ELSE LET stored == value.d["BaseModel_to_store"]
                 IN IF IsNone(stored) THEN Raise("TypeError")
                    ELSE IF ~IsDict(stored) THEN Raise("TypeError")
                    ELSE LET init_args == IF "args" \in DOMAIN stored.d
                                             THEN stored.d["args"].items ELSE <<>>
                             init_kwargs == Without(stored.d, "args")
                         IN IF "_name" \notin DOMAIN init_kwargs THEN Raise("KeyError")
                            ELSE IF init_kwargs["_name"].s \notin DOMAIN _models THEN Raise("KeyError")
                            ELSE LET made == Construct(_models[init_kwargs["_name"].s],
                                                       init_args, init_kwargs)
                                 IN IF ~made.ok THEN made
                                    ELSE KwargsToBaseModels(With(kd, key, made.val), keys \ {key})

\* kwargs_to_base_models(kwarg_dict)
kwargs_to_base_models(kd) == KwargsToBaseModels(kd, DOMAIN kd)

----------------------------------------------------------------------------
(* state_dict / load_state_dict *)

Tensor == [t |-> "tensor"]

MetadataKey == <<"_metadata">>

RECURSIVE StateDictInto(_, _, _)
RECURSIVE SubmodulesInto(_, _, _, _)

\* BaseModel.state_dict(destination, prefix) on instance m: nn.Module.state_dict
\* writes the module's own tensors under the prefix and calls state_dict of
\* every submodule on the same destination; then the metadata entry.
\* dest is [d |-> the destination mapping, warns |-> the warnings so far].
StateDictInto(m, dest, prefix) ==
    LET own == [key \in (DOMAIN dest.d) \cup {prefix \o <<w>> : w \in ClassTable[m.cls].weights} |->
                    IF key \in DOMAIN dest.d THEN dest.d[key] ELSE Tensor]
        subs == {a \in DOMAIN m.attrs : IsModel(m.attrs[a])}
        state_dict == SubmodulesInto(m, [d |-> own, warns |-> dest.warns], prefix, subs)
    IN IF MetadataKey \notin DOMAIN state_dict.d \/ IsNone(state_dict.d[MetadataKey])
          THEN [d |-> With(state_dict.d, MetadataKey, MkDict(m.kw)), warns |-> state_dict.warns]
          ELSE [d |-> state_dict.d, warns |-> state_dict.warns \cup {"metadata already set"}]

SubmodulesInto(m, dest, prefix, subs) ==
    IF subs = {} THEN dest
    ELSE LET a == CHOOSE x \in subs : TRUE
         IN SubmodulesInto(m, StateDictInto(m.attrs[a], dest, prefix \o <<a>>), prefix, subs \ {a})

\* m.state_dict()
state_dict(m) == StateDictInto(m, [d |-> EmptyMap, warns |-> {}], <<>>)

RECURSIVE TensorKeys(_, _)
\* the keys nn.Module.load_state_dict expects for module m
TensorKeys(m, prefix) ==
    {prefix \o <<w>> : w \in ClassTable[m.cls].weights}
        \cup UNION {TensorKeys(m.attrs[a], prefix \o <<a>>) :
                        a \in {x \in DOMAIN m.attrs : IsModel(m.attrs[x])}}

\* the warnings of load_state_dict for this metadata entry
VersionWarnings(metadata) ==
    IF IsNone(metadata) THEN {}
    ELSE LET saved_version == IF "_version" \in DOMAIN metadata.d
                                 THEN metadata.d["_version"] ELSE None
         IN (IF IsNone(saved_version) THEN {"no stored version"} ELSE {})
                \cup (IF saved_version # MkStr(BaseVersion) THEN {"version differs"} ELSE {})

\* m.load_state_dict(sd, strict): pops the metadata, warns, then nn.Module.load_state_dict
load_state_dict(m, sd, strict) ==
    LET metadata == IF MetadataKey \in DOMAIN sd THEN sd[MetadataKey] ELSE None
        rest == Without(sd, MetadataKey)
    IN Warn(IF strict /\ DOMAIN rest # TensorKeys(m, <<>>) THEN Raise("RuntimeError") ELSE Ok(None),
            VersionWarnings(metadata))

----------------------------------------------------------------------------
(* torch.save / torch.load, and the checkpoint files *)

RECURSIVE Dump(_)
\* torch.save(obj, path): the pickled form of a value
Dump(v) ==
    CASE v.t = "tuple" -> [pk |-> "tuple", items |-> [i \in DOMAIN v.items |-> Dump(v.items[i])]]
      [] v.t = "dict" -> [pk |-> "dict", items |-> [k \in DOMAIN v.d |-> Dump(v.d[k])]]
      [] v.t = "model" -> [pk |-> "object", cls |-> v.cls,
                           state |-> [kw |-> Dump(MkDict(v.kw)), attrs |-> Dump(MkDict(v.attrs))]]
      [] OTHER -> [pk |-> "atom", v |-> v]

RECURSIVE Load(_)
\* torch.load(path): the value a pickled form stands for
Load(p) ==
    CASE p.pk = "tuple" -> MkTuple([i \in DOMAIN p.items |-> Load(p.items[i])])
      [] p.pk = "dict" -> MkDict([k \in DOMAIN p.items |-> Load(p.items[k])])
      [] p.pk = "object" -> [t |-> "model", cls |-> p.cls,
                             kw |-> Load(p.state.kw).d, attrs |-> Load(p.state.attrs).d]
      [] OTHER -> p.v

\* save_checkpoint(save_folder, save_name): the two files it writes
save_checkpoint(m) ==
    [state_dict |-> Dump(MkDict(state_dict(m).d)),
     metadata |-> Dump(MkDict(m.kw)),
     tag |-> "own"]

\* a captured-arguments mapping with the version tag another release wrote:
\* none at all ("absent") or a different one ("other")
Retag(kw, tag) ==
    IF tag = "absent" THEN Without(kw, "_version")
    ELSE IF tag = "other" THEN With(kw, "_version", MkStr(OtherVersion))
    ELSE kw

\* the files of a checkpoint of the same model written by another release
RetagFiles(files, tag) ==
    LET sd == Load(files.state_dict).d
    IN [state_dict |-> Dump(MkDict(With(sd, MetadataKey, MkDict(Retag(sd[MetadataKey].d, tag))))),
        metadata |-> Dump(MkDict(Retag(Load(files.metadata).d, tag))),
        tag |-> tag]

\* instance.load_checkpoint(save_folder, save_name)
load_checkpoint(m, files) == load_state_dict(m, Load(files.state_dict).d, TRUE)

\* cls.from_checkpoint(save_folder, save_name)
from_checkpoint(c, files) ==
    LET loaded == kwargs_to_base_models(Load(files.metadata).d)
    IN IF ~loaded.ok THEN loaded
       ELSE IF "_version" \notin DOMAIN loaded.val THEN Raise("KeyError")
       ELSE LET version == loaded.val["_version"]
                w == IF version # MkStr(BaseVersion) THEN {"version differs"} ELSE {}
                k1 == Without(loaded.val, "_version")
                init_args == IF "args" \in DOMAIN k1 THEN k1["args"].items ELSE <<>>
                init_kwargs == Without(k1, "args")
                instance == Construct(c, init_args, init_kwargs)
            IN IF ~instance.ok THEN Warn(instance, w)
               ELSE LET ld == load_checkpoint(instance.val, files)
                    IN IF ~ld.ok THEN Warn(ld, w)
                       ELSE Warn(Ok(instance.val), w \cup ld.warns)

----------------------------------------------------------------------------
(* A program that builds models, saves a checkpoint and loads it back *)

MaxDepth == 3

RECURSIVE Declared(_)
\* the registry and the class names once the first n classes of ClassTable are declared
Declared(n) ==
    IF n = 0 THEN [models |-> EmptyMap, names |-> EmptyMap]
    ELSE LET before == Declared(n - 1)
         IN [models |-> RegisterModels(before.models, n, ClassTable[n].pyname, ClassTable[n].name),
             names |-> RegisterName(before.names, n, ClassTable[n].pyname, ClassTable[n].name)]

RECURSIVE Depth(_)
\* how many models deep a value nests, a nested-model record counting as a model
Depth(v) ==
    LET Most(S) == IF S = {} THEN 0 ELSE CHOOSE x \in S : \A y \in S : y <= x
    IN CASE v.t = "model" -> 1 + Most({Depth(v.kw[k]) : k \in DOMAIN v.kw})
         [] v.t = "dict" -> (IF "BaseModel_to_store" \in DOMAIN v.d THEN 1 ELSE 0)
                                + Most({Depth(v.d[k]) : k \in DOMAIN v.d})
         [] v.t = "tuple" -> Most({Depth(v.items[i]) : i \in DOMAIN v.items})
         [] OTHER -> 0

\* a keyword no fixture class declares
ExtraKeys == {"foo"}

\* the values tried for a parameter: a number, for a sub-model argument the
\* model built last, alone or inside a dict, and for a keyword outside the
\* signature also a dict of plain values
ArgValues(name) ==
    IF name = "submodel"
        THEN IF cur = None THEN {} ELSE {cur, MkDict("enc" :> cur)}
        ELSE IF name \in ExtraKeys THEN {MkInt(5), MkDict("k" :> MkInt(1))}
        ELSE {MkInt(5)}

\* the keyword mappings tried for class c
KwargsFor(c) ==
    LET keys == ParamNames(c) \cup ExtraKeys
    IN UNION {{f \in [ks -> UNION {ArgValues(k) : k \in ks}] : \A k \in ks : f[k] \in ArgValues(k)} :
                 ks \in SUBSET keys}

\* the positional arguments tried for class c: none, or the first parameter
ArgsFor(c) == {<<>>} \cup {<<v>> : v \in ArgValues(ClassTable[c].params[1].name)}

InitModel ==
    /\ _models = Declared(Len(ClassTable)).models
    /\ _name = Declared(Len(ClassTable)).names
    /\ decls = [c \in Classes |-> [cls |-> c, pyname |-> ClassTable[c].pyname, name |-> ClassTable[c].name]]
    /\ Idle

\* cur = cls(*args, **kwargs)
New(c, args, kwargs) ==
    /\ disk = None
    /\ LET made == Construct(c, args, kwargs)
       IN /\ made.ok => Depth(made.val) <= MaxDepth
          /\ cur' = IF made.ok THEN made.val ELSE cur
          /\ out' = IF made.ok
                       THEN Did("new", [cls |-> c, args |-> args, kwargs |-> kwargs], Ok(None))
                       ELSE Did("new", None, made)
    /\ UNCHANGED <<_models, _name, decls, disk, config, mlp, fwd>>

\* cur.state_dict()
ExportStateDict ==
    /\ cur # None
    /\ LET sd == state_dict(cur)
       IN out' = Did("state_dict", None, Warn(Ok([t |-> "state_dict", d |-> sd.d]), sd.warns))
    /\ UNCHANGED <<_models, _name, decls, cur, disk, config, mlp, fwd>>

\* cur.save_checkpoint(folder, name)
SaveCheckpoint ==
    /\ cur # None
    /\ disk = None
    /\ disk' = save_checkpoint(cur)
    /\ out' = Did("save_checkpoint", None, Warn(Ok(None), state_dict(cur).warns))
    /\ UNCHANGED <<_models, _name, decls, cur, config, mlp, fwd>>

\* the folder holds the checkpoint as another release of the class wrote it
OtherRelease(tag) ==
    /\ disk # None
    /\ disk.tag = "own"
    /\ disk' = RetagFiles(disk, tag)
    /\ out' = Did("other_release", None, Ok(None))
    /\ UNCHANGED <<_models, _name, decls, cur, config, mlp, fwd>>

\* cur.load_checkpoint(folder, name)
LoadCheckpoint ==
    /\ disk # None
    /\ out' = Did("load_checkpoint", None, load_checkpoint(cur, disk))
    /\ UNCHANGED <<_models, _name, decls, cur, disk, config, mlp, fwd>>

\* cls.from_checkpoint(folder, name)
FromCheckpoint(c) ==
    /\ disk # None
    /\ out' = Did("from_checkpoint", [cls |-> c], from_checkpoint(c, disk))
    /\ UNCHANGED <<_models, _name, decls, cur, disk, config, mlp, fwd>>

NextModel ==
    \/ \E c \in Classes : \E args \in ArgsFor(c), kwargs \in KwargsFor(c) : New(c, args, kwargs)
    \/ ExportStateDict
    \/ SaveCheckpoint
    \/ \E tag \in {"absent", "other"} : OtherRelease(tag)
    \/ LoadCheckpoint
    \/ \E c \in Classes : FromCheckpoint(c)

SpecModel == InitModel /\ [][NextModel]_vars

----------------------------------------------------------------------------
(* Capture and checkpoint claims *)

\* the last call was a constructor call that returned: cur is the instance it made
Constructed == out.op = "new" /\ out.ok

\* C1: for every constructor parameter with a declared default, _init_kwargs
\* holds that default under the parameter's name only when the caller did not
\* supply the parameter, by keyword or positionally; a value supplied by
\* keyword is captured as supplied; a keyword outside the signature is kept.
C1_DefaultsOnlyWhenNotSupplied ==
    Constructed =>
        LET c == out.call.cls
            args == out.call.args
            kwargs == out.call.kwargs
            ps == ClassTable[c].params
        IN /\ \A i \in 1..Len(ps) :
                ps[i].has_default =>
                    LET n == ps[i].name
                    IN /\ (n \notin DOMAIN kwargs /\ i > Len(args))
                            => (n \in DOMAIN cur.kw /\ cur.kw[n] = ps[i].default)
                       /\ (n \in DOMAIN kwargs) => (n \in DOMAIN cur.kw /\ cur.kw[n] = kwargs[n])
                       /\ (i <= Len(args)) => (n \notin DOMAIN cur.kw)
           /\ \A k \in (DOMAIN kwargs) \ ParamNames(c) :
                k \in DOMAIN cur.kw /\ cur.kw[k] = kwargs[k]

RECURSIVE ContainsModel(_)
\* some value inside v, at any depth, is a BaseModel instance
ContainsModel(v) ==
    CASE v.t = "model" -> TRUE
      [] v.t = "dict" -> \E k \in DOMAIN v.d : ContainsModel(v.d[k])
      [] v.t = "tuple" -> \E i \in DOMAIN v.items : ContainsModel(v.items[i])
      [] OTHER -> FALSE

\* the nested-model record of instance m
RecordOf(m) == MkDict("BaseModel_to_store" :> MkDict(m.kw))

\* C2: after construction no value anywhere in _init_kwargs is a BaseModel
\* instance; a model passed by keyword, inside a dict argument or positionally
\* (under 'args') has been replaced by {'BaseModel_to_store': its _init_kwargs}.
C2_NoModelInInitKwargs ==
    /\ cur # None => ~ContainsModel(MkDict(cur.kw))
    /\ Constructed =>
          /\ \A k \in DOMAIN out.call.kwargs :
                IsModel(out.call.kwargs[k]) => cur.kw[k] = RecordOf(out.call.kwargs[k])
          /\ \A i \in 1..Len(out.call.args) :
                IsModel(out.call.args[i]) => cur.kw["args"].items[i] = RecordOf(out.call.args[i])

IsRecord(v) == IsDict(v) /\ "BaseModel_to_store" \in DOMAIN v.d

RECURSIVE Rebuilt(_)
\* every nested-model record among the captured arguments of m stands for a
\* live instance held by m: of the registered class the record names, with the
\* record's _init_kwargs, and itself rebuilt all the way down
Rebuilt(m) ==
    \A k \in DOMAIN m.kw :
        IsRecord(m.kw[k]) =>
            /\ k \in DOMAIN m.attrs
            /\ IsModel(m.attrs[k])
            /\ m.attrs[k].kw = m.kw[k].d["BaseModel_to_store"].d
            /\ Lower(m.attrs[k].kw["_name"].s) \in DOMAIN _models
            /\ m.attrs[k].cls = _models[Lower(m.attrs[k].kw["_name"].s)]
            /\ Rebuilt(m.attrs[k])

\* from_checkpoint was called on the class of cur, on the checkpoint cur saved,
\* and cur was built with a nested model as its submodel keyword argument
ReloadedNested ==
    /\ out.op = "from_checkpoint"
    /\ disk.tag = "own"
    /\ out.call.cls = cur.cls
    /\ "submodel" \in DOMAIN cur.kw
    /\ IsRecord(cur.kw["submodel"])

\* C3: for a registered model built with a nested registered model, at any
\* depth, reconstruction from the saved _init_kwargs succeeds, turns every
\* nested record into a live instance of the class the record names, and the
\* instances' _init_kwargs equal the originals'.
C3_RoundTrip ==
    ReloadedNested =>
        /\ out.ok
        /\ out.val.kw = cur.kw
        /\ Rebuilt(out.val)

\* the last call loaded a checkpoint whose version tag is absent or differs
LoadedOtherRelease ==
    /\ out.op \in {"load_checkpoint", "from_checkpoint"}
    /\ disk.tag \in {"absent", "other"}

\* what the same load does on the checkpoint with its own version tag
SameLoadOwnTag ==
    IF out.op = "load_checkpoint" THEN load_checkpoint(cur, save_checkpoint(cur))
    ELSE from_checkpoint(out.call.cls, save_checkpoint(cur))

\* C4: a stored version tag that is absent or differs from the class's
\* _version never makes a load fail: load_state_dict and from_checkpoint warn
\* and complete whatever load completes with the class's own tag.
C4_VersionTagNeverFatal ==
    (LoadedOtherRelease /\ SameLoadOwnTag.ok) =>
        /\ out.ok
        /\ out.warns \cap {"no stored version", "version differs"} # {}

\* C5: state_dict() returns a mapping whose '_metadata' entry is the exporting
\* instance's own _init_kwargs; when a submodule's export populated the entry
\* first, a warning is emitted and the entry is still the exporting instance's.
C5_MetadataIsOwn ==
    (out.op = "state_dict" /\ out.ok) =>
        /\ MetadataKey \in DOMAIN out.val.d
        /\ out.val.d[MetadataKey] = MkDict(cur.kw)
        /\ (\E a \in DOMAIN cur.attrs : IsModel(cur.attrs[a]))
              => "metadata already set" \in out.warns

\* C11: for every instance whose class still holds its registry entry, the
\* '_name' stored in its _init_kwargs is a key of BaseModel._models and maps to
\* the instance's class, whatever the letter case of the class name or of the
\* explicit name=.
C11_StoredNameFindsClass ==
    Constructed =>
        LET stored == cur.kw["_name"].s
        IN (Lower(stored) \in DOMAIN _models /\ _models[Lower(stored)] = cur.cls) =>
               /\ stored \in DOMAIN _models
               /\ _models[stored] = cur.cls

\* the keys of a captured mapping whose value is a dict that is no nested-model record
PlainDictKeys(kw) == {k \in DOMAIN kw : IsDict(kw[k]) /\ ~IsRecord(kw[k])}

\* the metadata artifact of cur's checkpoint without its plain dict values
WithoutPlainDicts(files) ==
    LET kw == Load(files.metadata).d
    IN [files EXCEPT !.metadata = Dump(MkDict([k \in (DOMAIN kw) \ PlainDictKeys(kw) |-> kw[k]]))]

\* from_checkpoint was called on the class of cur, on the checkpoint cur saved;
\* cur holds a plain dict among its captured arguments, and the reconstruction
\* succeeds when those are left out
ReloadedPlainDict ==
    /\ out.op = "from_checkpoint"
    /\ disk.tag = "own"
    /\ out.call.cls = cur.cls
    /\ PlainDictKeys(cur.kw) # {}
    /\ from_checkpoint(cur.cls, WithoutPlainDicts(disk)).ok

\* C13: for a model whose captured _init_kwargs holds a plain dict value (one
\* without the key 'BaseModel_to_store'), kwargs_to_base_models and
\* from_checkpoint do not fail and hand that dict to the constructor unchanged.
C13_PlainDictPassedThrough ==
    ReloadedPlainDict =>
        /\ kwargs_to_base_models(Load(disk.metadata).d).ok
        /\ out.ok
        /\ \A k \in PlainDictKeys(cur.kw) : out.val.kw[k] = cur.kw[k]

----------------------------------------------------------------------------
(* get_model(config) *)

MaxChannels == 5

MaxLevels == 2

\* The config mapping, by the keys get_model reads:
\*   arch     config["arch"], a str
\*   archs    the entries of config under architecture names: name -> sub-mapping
\*   patching config["patching"]: a mapping, or None when config has no such key

\* config["patching"]["levels"], 0 when either key is missing (KeyError)
PatchingLevels(cfg) ==
    IF IsNone(cfg.patching) THEN 0
    ELSE IF "levels" \notin DOMAIN cfg.patching.d THEN 0
    ELSE cfg.patching.d["levels"].n

\* the in_channels get_model stores for these data_channels: `if patching_levels:` is truthiness
InChannels(cfg, data_channels) ==
    IF PatchingLevels(cfg) # 0 THEN data_channels * (PatchingLevels(cfg) + 1) ELSE data_channels

\* get_model(config): [res |-> what the call returns or raises, config |-> config afterwards]
get_model(cfg) ==
    LET arch == Lower(cfg.arch)
    IN IF arch \notin DOMAIN cfg.archs
          THEN [res |-> Raise("AttributeError"), config |-> cfg]
       ELSE IF "data_channels" \notin DOMAIN cfg.archs[arch]
          THEN [res |-> Raise("KeyError"), config |-> cfg]
       ELSE LET data_channels == cfg.archs[arch]["data_channels"].n
                config_arch == With(Without(cfg.archs[arch], "data_channels"),
                                    "in_channels", MkInt(InChannels(cfg, data_channels)))
                after == [cfg EXCEPT !.archs[arch] = config_arch]
            IN IF arch \notin DOMAIN _models
                  THEN [res |-> Raise("ValueError"), config |-> after]
                  ELSE [res |-> Construct(_models[arch], <<>>, config_arch), config |-> after]

\* the architecture names asked for: registered ones in two spellings, a
\* registered class without an in_channels parameter, and an unregistered name
ArchNames == {<<"D", "m">>, <<"d", "m">>, <<"N", "b", "m">>, <<"l", "f">>, <<"x">>}

\* the sub-mappings tried for an architecture
SubMappings ==
    {EmptyMap, "width" :> MkInt(5)}
        \cup {"data_channels" :> MkInt(n) : n \in 1..MaxChannels}
        \cup {("data_channels" :> MkInt(n)) @@ ("foo" :> MkInt(5)) : n \in 1..MaxChannels}

\* the values of config["patching"] tried
Patchings ==
    {None, MkDict(EmptyMap)} \cup {MkDict("levels" :> MkInt(n)) : n \in (-MaxLevels)..MaxLevels}

Configs ==
    {[arch |-> a, archs |-> EmptyMap, patching |-> p] : a \in ArchNames, p \in Patchings}
        \cup {[arch |-> a, archs |-> (Lower(a) :> sub), patching |-> p] :
                a \in ArchNames, sub \in SubMappings, p \in Patchings}

InitFactory ==
    /\ _models = Declared(Len(ClassTable)).models
    /\ _name = Declared(Len(ClassTable)).names
    /\ decls = [c \in Classes |-> [cls |-> c, pyname |-> ClassTable[c].pyname, name |-> ClassTable[c].name]]
    /\ cur = None
    /\ out = Did("import", None, Ok(None))
    /\ disk = None
    /\ config \in Configs
    /\ mlp = None
    /\ fwd = None

\* cur = get_model(config)
GetModel ==
    /\ config # None
    /\ LET got == get_model(config)
       IN /\ config' = got.config
          /\ cur' = IF got.res.ok THEN got.res.val ELSE cur
          /\ out' = Did("get_model", config, [got.res EXCEPT !.val = None])
    /\ UNCHANGED <<_models, _name, decls, disk, mlp, fwd>>

NextFactory == GetModel

SpecFactory == InitFactory /\ [][NextFactory]_vars

----------------------------------------------------------------------------
(* Factory claims *)

\* C6: get_model builds the model with in_channels = data_channels * (levels + 1)
\* exactly when config['patching']['levels'] is a positive integer, and with
\* the raw data_channels otherwise (key absent, levels 0 or not positive).
C6_InChannelsPositiveLevels ==
    (out.op = "get_model" /\ out.ok) =>
        LET cfg == out.call
            dc == cfg.archs[Lower(cfg.arch)]["data_channels"].n
            levels == PatchingLevels(cfg)
        IN cur.kw["in_channels"].n = (IF levels > 0 THEN dc * (levels + 1) ELSE dc)

\* C7: get_model with an architecture name that is no key of the registry
\* fails with the ValueError, whatever else the config holds, and builds nothing.
C7_UnregisteredIsValueError ==
    (out.op = "get_model" /\ Lower(out.call.arch) \notin DOMAIN _models) =>
        /\ ~out.ok
        /\ out.err = "ValueError"
        /\ cur = None

\* C12: get_model leaves the caller's config usable: a call on the config a
\* successful call was just made on succeeds too, and builds the model with
\* the same in_channels.
C12_SecondCallSameModel ==
    [][(out.op = "get_model" /\ out.ok /\ out'.op = "get_model") =>
           /\ out'.ok
           /\ cur'.kw["in_channels"] = cur.kw["in_channels"]]_vars

====
